---- MODULE Spec2Model ----
(***************************************************************************)
(* A model of the execution core of revm: the gas ledger (Gas), the        *)
(* machine (Machine) with its step loop, return_value(), and the execution *)
(* cursor over a bytecode container (ExtBytecode).                         *)
(*                                                                         *)
(* Integer widths are scaled down: u64 is 0..MaxU64, usize is 0..MaxUsize, *)
(* i64 is MinI64..MaxI64 and U256 is 0..MaxU256.  Rust's `+`, `-`, `+=`    *)
(* and `-=` on these types panic on overflow when the build has overflow   *)
(* checks (debug) and wrap otherwise (release); overflow_checks is the     *)
(* build's choice, fixed for a whole execution.                            *)
(***************************************************************************)
EXTENDS Integers, Sequences, FiniteSets, TLC

VARIABLES
    overflow_checks, \* the build: TRUE = overflow panics, FALSE = it wraps
    panicked,        \* a panic has unwound the program
    gas,             \* Machine.gas : Gas {limit, used, memory, refunded}
    code,            \* Machine.contract.code
    program_counter, \* Machine.program_counter
    status,          \* Machine.status: "Ok" or the terminal reason of Err(reason)
    return_range,    \* Machine.return_range : Range<U256>
    memory,          \* Machine.memory, the bytes it holds
    stack,           \* Machine.stack
    caller,          \* what the caller is doing: "idle" or inside run()'s loop
    stepRet,         \* what the last step() returned: "none", "Ok" or a reason
    runRet,          \* what run() returned: "none" or a reason
    lastCtl,         \* the Control eval returned in the last step (kind "none": no dispatch)
    steps,           \* number of step() calls so far
    dispatches,      \* number of eval() calls so far
    traces,          \* number of trace_opcode() calls so far
    reentered,       \* a step() has been called with status already Err
    api,             \* the call the last step served: "none", "step" or "run"
    last,            \* the last ledger operation: [op, arg, ret]
    charged,         \* sum of the costs of the record_cost calls that returned true
    maxPassed,       \* largest value passed to gas_memory so far
    ops,             \* number of ledger operations so far
    retVal,          \* result of the last return_value() call
    debug_assertions,    \* the build: TRUE = debug assertions are compiled in
    base,                \* ExtBytecode.base : Bytecode
    instruction_pointer, \* ExtBytecode.instruction_pointer, as its distance
                         \* in bytes from base.bytecode().as_ptr()
    jumped,              \* the last call that set the pointer, and the
                         \* target it was given if it was absolute_jump
    strayed,             \* the pointer has been outside the buffer
    rd                   \* the last read or accessor call and its outcome

vars == <<overflow_checks, panicked, gas, code, program_counter, status,
          return_range, memory, stack, caller, stepRet, runRet, lastCtl,
          steps, dispatches, traces, reentered, api, last, charged,
          maxPassed, ops, retVal, debug_assertions, base,
          instruction_pointer, jumped, strayed, rd>>

machineVars == <<code, program_counter, status, return_range, memory, stack>>
loopVars == <<caller, stepRet, runRet, lastCtl, steps, dispatches, traces,
              reentered, api>>
ledgerGhosts == <<last, charged, maxPassed, ops>>
cursorVars == <<debug_assertions, base, instruction_pointer, jumped, strayed, rd>>

-----------------------------------------------------------------------------
(* Bounds and integer types *)

MaxU64 == 4
MaxI64 == 2
MaxOps == 3
MaxCodeLen == 2
MaxAdvance == 2
MaxSteps == 3
MaxStack == 1
MaxMemLen == 1
MaxUsize == 2
MaxLen == 2
MaxJump == 1

U64 == 0..MaxU64
U64Mod == MaxU64 + 1
MinI64 == -MaxI64 - 1
I64 == MinI64..MaxI64
I64Mod == 2 * MaxI64 + 2

Usize == 0..MaxUsize
MaxU256 == 2 * MaxUsize + 2
U256 == 0..MaxU256

WrapU64(x) == x % U64Mod
WrapI64(x) == ((x - MinI64) % I64Mod) + MinI64

Max(a, b) == IF a >= b THEN a ELSE b

-----------------------------------------------------------------------------
(* Gas *)

GasNew(limit) == [limit |-> limit, used |-> 0, memory |-> 0, refunded |-> 0]

\* Gas::all_used
all_used(g) == g.used + g.memory

\* Gas::record_cost with the charge applied before the limit check
record_cost_charge_first(g, cost) ==
    LET g2 == [g EXCEPT !.used = WrapU64(g.used + cost)]
    IN  IF g.limit < WrapU64(WrapU64(g.used + g.memory) + cost)
        THEN [gas |-> g2, ret |-> "false"]
        ELSE [gas |-> g2, ret |-> "true"]

\* Gas::record_cost with the comparison's sense lost at the boundary (<= for <)
record_cost_off_by_one(g, cost) ==
    IF g.limit <= WrapU64(WrapU64(g.used + g.memory) + cost)
    THEN [gas |-> g, ret |-> "false"]
    ELSE [gas |-> [g EXCEPT !.used = WrapU64(g.used + cost)], ret |-> "true"]

\* Gas::record_cost: [gas |-> the ledger afterwards, ret |-> "true", "false" or "panic"]
record_cost(g, cost) ==
    LET s1 == g.used + g.memory
        s2 == WrapU64(s1) + cost
        all_used_gas == WrapU64(s2)
    IN  IF overflow_checks /\ (s1 > MaxU64 \/ s2 > MaxU64)
        THEN [gas |-> g, ret |-> "panic"]
        ELSE IF g.limit < all_used_gas
        THEN [gas |-> g, ret |-> "false"]
        ELSE IF overflow_checks /\ g.used + cost > MaxU64
        THEN [gas |-> g, ret |-> "panic"]
        ELSE [gas |-> [g EXCEPT !.used = WrapU64(g.used + cost)], ret |-> "true"]

\* Gas::record_cost_control reporting the failure as Continue
record_cost_control_swallow(g, cost) ==
    LET r == record_cost(g, cost)
    IN  IF r.ret = "panic" THEN r ELSE [gas |-> r.gas, ret |-> "Continue"]

\* Gas::record_cost_control: ret is "Continue", "Exit(OutOfGas)" or "panic"
record_cost_control(g, cost) ==
    LET r == record_cost(g, cost)
    IN  IF r.ret = "panic" THEN r
        ELSE IF r.ret = "false" THEN [gas |-> r.gas, ret |-> "Exit(OutOfGas)"]
        ELSE [gas |-> r.gas, ret |-> "Continue"]

\* Gas::remaining: [ret |-> "value" or "panic", val |-> the u64 returned]
remaining(g) ==
    IF overflow_checks /\ (g.limit - g.used < 0 \/ WrapU64(g.limit - g.used) - g.memory < 0)
    THEN [ret |-> "panic", val |-> 0]
    ELSE [ret |-> "value", val |-> WrapU64(WrapU64(g.limit - g.used) - g.memory)]

\* Gas::erase_cost
erase_cost(g, returned) ==
    IF g.used - returned < 0 /\ overflow_checks
    THEN [gas |-> g, ret |-> "panic"]
    ELSE [gas |-> [g EXCEPT !.used = WrapU64(g.used - returned)], ret |-> "unit"]

\* Gas::record_refund assigning the delta instead of adding it
record_refund_assign(g, refund) ==
    [gas |-> [g EXCEPT !.refunded = refund], ret |-> "unit"]

\* Gas::record_refund, Machine::gas_refund
record_refund(g, refund) ==
    LET s == g.refunded + refund
    IN  IF (s > MaxI64 \/ s < MinI64) /\ overflow_checks
        THEN [gas |-> g, ret |-> "panic"]
        ELSE [gas |-> [g EXCEPT !.refunded = WrapI64(s)], ret |-> "unit"]

\* Machine::gas_memory overwriting the counter instead of keeping the maximum
gas_memory_overwrite(g, gas_memory_arg) ==
    [gas |-> [g EXCEPT !.memory = gas_memory_arg], ret |-> "unit"]

\* Machine::gas_memory (the ledger's memory_cost_update)
gas_memory(g, gas_memory_arg) ==
    [gas |-> [g EXCEPT !.memory = Max(g.memory, gas_memory_arg)], ret |-> "unit"]

-----------------------------------------------------------------------------
(* Construction: Machine::new(contract, gas_limit) *)

NoCtl == [kind |-> "none", n |-> 0, reason |-> "-"]
NoValue == [ret |-> "none", bytes |-> <<>>]

MachineNew(c, gas_limit) ==
    /\ code = c
    /\ program_counter = 0
    /\ return_range = [start |-> 0, end |-> 0]
    /\ memory = <<>>
    /\ stack = <<>>
    /\ status = "Ok"
    /\ gas = GasNew(gas_limit)

GhostInit ==
    /\ panicked = FALSE
    /\ caller = "idle"
    /\ stepRet = "none"
    /\ runRet = "none"
    /\ lastCtl = NoCtl
    /\ steps = 0
    /\ dispatches = 0
    /\ traces = 0
    /\ reentered = FALSE
    /\ api = "none"
    /\ last = [op |-> "new", arg |-> 0, ret |-> "unit"]
    /\ charged = 0
    /\ maxPassed = 0
    /\ ops = 0
    /\ retVal = NoValue

\* No cursor has been constructed
NoBase == [kind |-> "none", bytes |-> <<>>, data |-> <<>>, containers |-> <<>>]
NoRd == [op |-> "none", arg |-> 0, len |-> 0, out |-> "none", val |-> 0, bytes |-> <<>>]

CursorIdle ==
    /\ debug_assertions = overflow_checks
    /\ base = NoBase
    /\ instruction_pointer = 0
    /\ jumped = [op |-> "none", target |-> 0]
    /\ strayed = FALSE
    /\ rd = NoRd

InitGas ==
    /\ overflow_checks \in BOOLEAN
    /\ \E limit \in U64 : MachineNew(<<>>, limit)
    /\ GhostInit
    /\ CursorIdle

-----------------------------------------------------------------------------
(* Ledger operations *)

LedgerStep(op, arg, r) ==
    /\ ~panicked
    /\ ops < MaxOps
    /\ gas' = r.gas
    /\ panicked' = (r.ret = "panic")
    /\ last' = [op |-> op, arg |-> arg, ret |-> r.ret]
    /\ ops' = ops + 1
    /\ UNCHANGED <<overflow_checks, machineVars, loopVars, retVal, cursorVars>>

RecordCost ==
    \E cost \in U64 :
        LET r == record_cost(gas, cost)
        IN  /\ LedgerStep("record_cost", cost, r)
            /\ charged' = IF r.ret = "true" THEN charged + cost ELSE charged
            /\ UNCHANGED maxPassed

RecordCostControl ==
    \E cost \in U64 :
        LET r == record_cost_control(gas, cost)
        IN  /\ LedgerStep("record_cost_control", cost, r)
            /\ charged' = IF r.ret = "Continue" THEN charged + cost ELSE charged
            /\ UNCHANGED maxPassed

EraseCost ==
    \E returned \in U64 :
        /\ LedgerStep("erase_cost", returned, erase_cost(gas, returned))
        /\ UNCHANGED <<charged, maxPassed>>

RecordRefund ==
    \E refund \in I64 :
        /\ LedgerStep("record_refund", refund, record_refund(gas, refund))
        /\ UNCHANGED <<charged, maxPassed>>

MemoryCostUpdate ==
    \E v \in U64 :
        /\ LedgerStep("gas_memory", v, gas_memory(gas, v))
        /\ maxPassed' = Max(maxPassed, v)
        /\ UNCHANGED charged

\* Gas::limit_mut: the caller writes through the returned &mut u64
LimitMut ==
    \E v \in U64 :
        /\ LedgerStep("limit_mut", v, [gas |-> [gas EXCEPT !.limit = v], ret |-> "unit"])
        /\ UNCHANGED <<charged, maxPassed>>

NextGas ==
    \/ RecordCost
    \/ RecordCostControl
    \/ EraseCost
    \/ RecordRefund
    \/ MemoryCostUpdate
    \/ LimitMut

SpecGas == InitGas /\ [][NextGas]_vars

\* A fresh ledger charged with record_cost, interleaved with gas_memory
NextCharge ==
    \/ RecordCost
    \/ MemoryCostUpdate

SpecCharge == InitGas /\ [][NextCharge]_vars

\* erase_cost called as its callers must call it, with returned <= used
EraseCostWithin ==
    \E returned \in 0..gas.used :
        /\ LedgerStep("erase_cost", returned, erase_cost(gas, returned))
        /\ UNCHANGED <<charged, maxPassed>>

NextSafe ==
    \/ RecordCost
    \/ RecordCostControl
    \/ MemoryCostUpdate
    \/ RecordRefund
    \/ EraseCostWithin

SpecSafe == InitGas /\ [][NextSafe]_vars

-----------------------------------------------------------------------------
(* Opcodes, control outcomes and exit reasons (crate::opcode, crate::error) *)

ADD == 1
UNASSIGNED == 12

\* the bytes OpCode::try_from_u8 recognises, among the bytes the model's code holds
Opcodes == {ADD}
CodeBytes == {ADD, UNASSIGNED}

\* OpCode::try_from_u8: <<opcode>> for Some(opcode), <<>> for None
try_from_u8(b) == IF b \in Opcodes THEN <<b>> ELSE <<>>

\* ExitReason: Stopped is ExitSucceed::Stopped, OutOfGas is ExitError::OutOfGas
Reasons == {"Stopped", "OutOfGas", "Revert"}

Continue == [kind |-> "Continue", n |-> 0, reason |-> "-"]
ContinueN(p) == [kind |-> "ContinueN", n |-> p, reason |-> "-"]
Jump(p) == [kind |-> "Jump", n |-> p, reason |-> "-"]
Exit(e) == [kind |-> "Exit", n |-> 0, reason |-> e]

\* What a handler may return.  ContinueN's argument is the width of an opcode
\* and its immediate, so program_counter + p stays far below usize::MAX.
Controls ==
    {Continue}
        \cup {ContinueN(p) : p \in 0..MaxAdvance}
        \cup {Jump(p) : p \in 0..MaxCodeLen}
        \cup {Exit(e) : e \in Reasons}

\* All code buffers of at most MaxCodeLen bytes
Codes == UNION {[1..n -> CodeBytes] : n \in 0..MaxCodeLen}

-----------------------------------------------------------------------------
(* Machine::step *)

\* lines 172-177 without the try_from_u8 decoding: any byte counts as an opcode
FetchOpcode_undecoded(c, pc) ==
    IF pc < Len(c) THEN <<c[pc + 1]>> ELSE <<>>

\* lines 172-177: contract.code.get(program_counter).map(try_from_u8).flatten()
FetchOpcode(c, pc) ==
    IF pc < Len(c) THEN try_from_u8(c[pc + 1]) ELSE <<>>

\* line 189 dropped: the step goes on whatever the status
StatusCheck_skipped(st) == TRUE

\* line 189 stopping only machines that ended otherwise than by Stopped
StatusCheck_unless_stopped(st) == st \in {"Ok", "Stopped"}

\* line 189: self.status.as_ref().map_err(..)? lets the step go on iff status is Ok
StatusCheck(st) == st = "Ok"

\* lines 192-209 with ContinueN advancing by the opcode's width only
ApplyControl_single_advance(pc, st, ctl) ==
    IF ctl.kind \in {"Continue", "ContinueN"}
        THEN [pc |-> pc + 1, status |-> st, ret |-> "Ok"]
    ELSE IF ctl.kind = "Exit"
        THEN [pc |-> pc, status |-> ctl.reason, ret |-> ctl.reason]
    ELSE [pc |-> ctl.n, status |-> st, ret |-> "Ok"]

\* the match with an Exit arm that returns the reason without storing it
ApplyControl_exit_unstored(pc, st, ctl) ==
    IF ctl.kind = "Continue"
        THEN [pc |-> pc + 1, status |-> st, ret |-> "Ok"]
    ELSE IF ctl.kind = "ContinueN"
        THEN [pc |-> pc + ctl.n, status |-> st, ret |-> "Ok"]
    ELSE IF ctl.kind = "Exit"
        THEN [pc |-> pc, status |-> st, ret |-> ctl.reason]
    ELSE [pc |-> ctl.n, status |-> st, ret |-> "Ok"]

\* the match with a Continue arm that leaves the program counter alone
ApplyControl_stay(pc, st, ctl) ==
    IF ctl.kind = "Continue"
        THEN [pc |-> pc, status |-> st, ret |-> "Ok"]
    ELSE IF ctl.kind = "ContinueN"
        THEN [pc |-> pc + ctl.n, status |-> st, ret |-> "Ok"]
    ELSE IF ctl.kind = "Exit"
        THEN [pc |-> pc, status |-> ctl.reason, ret |-> ctl.reason]
    ELSE [pc |-> ctl.n, status |-> st, ret |-> "Ok"]

\* the hook called after the status check instead of before it
Traced_after_check(op, st) == op # <<>> /\ st = "Ok"

\* line 186: whether this step() reaches handler.trace_opcode; op is the
\* fetched opcode (<<>> when there is none) and st the status the step starts with
Traced(op, st) == op # <<>>

\* lines 192-209: the match on eval's Control
ApplyControl(pc, st, ctl) ==
    IF ctl.kind = "Continue"
        THEN [pc |-> pc + 1, status |-> st, ret |-> "Ok"]
    ELSE IF ctl.kind = "ContinueN"
        THEN [pc |-> pc + ctl.n, status |-> st, ret |-> "Ok"]
    ELSE IF ctl.kind = "Exit"
        THEN [pc |-> pc, status |-> ctl.reason, ret |-> ctl.reason]
    ELSE [pc |-> ctl.n, status |-> st, ret |-> "Ok"]

\* What a handler does to the machine besides charging gas
EvalEffects == {"none", "push", "mstore"}
EvalCosts == {0, MaxU64}
GasLimits == {0, MaxU64}

\* eval(machine, opcode, program_counter, handler): the handler charges `cost`
\* with record_cost_control, leaves with its Exit when that fails, and
\* otherwise pushes a word, or stores a byte, sets the return range to the
\* memory and records the memory gas, and returns `ctl`.  r is record_cost_control's outcome.
EvalState(r, eff) ==
    /\ stack' = IF r.ret = "Continue" /\ eff = "push" /\ Len(stack) < MaxStack
                    THEN Append(stack, 1)
                ELSE stack
    /\ memory' = IF r.ret = "Continue" /\ eff = "mstore" /\ Len(memory) < MaxMemLen
                    THEN Append(memory, 1)
                 ELSE memory
    /\ return_range' = IF r.ret = "Continue" /\ eff = "mstore"
                          THEN [start |-> 0, end |-> Len(memory')]
                       ELSE return_range
    /\ gas' = IF r.ret = "Continue" /\ eff = "mstore"
                 THEN gas_memory(r.gas, Len(memory')).gas
              ELSE r.gas

EvalControl(r, ctl) == IF r.ret = "Exit(OutOfGas)" THEN Exit("OutOfGas") ELSE ctl

\* One call of step(), made for `by` ("step": the caller's own call, "run": an
\* iteration of run()'s loop), with a handler whose charges, effects and
\* control outcomes are drawn from costs, effs and ctls
StepWith(by, costs, effs, ctls) ==
    /\ ~panicked
    /\ steps < MaxSteps
    /\ steps' = steps + 1
    /\ api' = by
    /\ reentered' = (reentered \/ status # "Ok")
    /\ UNCHANGED <<overflow_checks, code, ledgerGhosts, retVal, cursorVars>>
    /\ traces' = traces + (IF Traced(FetchOpcode(code, program_counter), status)
                              THEN 1 ELSE 0)
    /\ IF FetchOpcode(code, program_counter) = <<>>
       THEN \* lines 179-182
            /\ status' = "Stopped"
            /\ stepRet' = "Stopped"
            /\ lastCtl' = NoCtl
            /\ UNCHANGED <<panicked, gas, program_counter, return_range, memory,
                           stack, dispatches>>
       ELSE /\ IF ~StatusCheck(status)
               THEN \* line 189
                    /\ stepRet' = status
                    /\ lastCtl' = NoCtl
                    /\ UNCHANGED <<panicked, gas, program_counter, status,
                                   return_range, memory, stack, dispatches>>
               ELSE \* lines 192-209
                    \E cost \in costs, eff \in effs, ctl \in ctls :
                        LET r == record_cost_control(gas, cost)
                            c == EvalControl(r, ctl)
                            a == ApplyControl(program_counter, status, c)
                        IN  /\ dispatches' = dispatches + 1
                            /\ EvalState(r, eff)
                            /\ IF r.ret = "panic"
                               THEN /\ panicked' = TRUE
                                    /\ stepRet' = "none"
                                    /\ lastCtl' = NoCtl
                                    /\ UNCHANGED <<program_counter, status>>
                               ELSE /\ panicked' = FALSE
                                    /\ program_counter' = a.pc
                                    /\ status' = a.status
                                    /\ stepRet' = a.ret
                                    /\ lastCtl' = c

\* step() with any handler
Step(by) == StepWith(by, EvalCosts, EvalEffects, Controls)

\* The caller calls step() once
StepCall ==
    /\ caller = "idle"
    /\ Step("step")
    /\ UNCHANGED <<caller, runRet>>

\* Machine::run, one iteration of its loop: the first one enters run(), and
\* the one whose step() returns Err leaves it with that reason
RunLoop ==
    /\ Step("run")
    /\ IF panicked'
       THEN caller' = "idle" /\ runRet' = "none"
       ELSE IF stepRet' = "Ok"
       THEN caller' = "run" /\ runRet' = "none"
       ELSE caller' = "idle" /\ runRet' = stepRet'

Init ==
    /\ overflow_checks \in BOOLEAN
    /\ \E c \in Codes, gas_limit \in GasLimits : MachineNew(c, gas_limit)
    /\ GhostInit
    /\ CursorIdle

Next ==
    \/ StepCall
    \/ RunLoop

Spec == Init /\ [][Next]_vars

\* The outcomes of a handler that only ever advances
AdvanceControls == {Continue} \cup {ContinueN(p) : p \in 1..MaxAdvance}

\* One call of run() with a handler that charges nothing and only advances:
\* an iteration of its loop, taken until run() has returned
RunAdvance ==
    /\ runRet = "none"
    /\ StepWith("run", {0}, {"none", "push"}, AdvanceControls)
    /\ IF panicked'
       THEN caller' = "idle" /\ runRet' = "none"
       ELSE IF stepRet' = "Ok"
       THEN caller' = "run" /\ runRet' = "none"
       ELSE caller' = "idle" /\ runRet' = stepRet'

\* run() is not suspended between two iterations of its loop
SpecAdvance == Init /\ [][RunAdvance]_vars /\ WF_vars(RunAdvance)

-----------------------------------------------------------------------------
(* Machine::return_value *)

Panic == [ret |-> "panic", bytes |-> <<>>]
Bytes(b) == [ret |-> "bytes", bytes |-> b]
Zeros(n) == [i \in 1..n |-> 0]

\* Memory::get(offset, size): `size` bytes from `offset`, zero where the
\* memory holds nothing
MemoryGet(mem, offset, size) ==
    [i \in 1..size |-> IF offset + i <= Len(mem) THEN mem[offset + i] ELSE 0]

\* lines 229-231: while ret.len() < len { ret.push(0) }
PadTo(ret, len) ==
    [i \in 1..Max(Len(ret), len) |-> IF i <= Len(ret) THEN ret[i] ELSE 0]

\* return_value without the padding loop of lines 229-231
return_value_unpadded(rr, mem) ==
    IF rr.start > rr.end \/ rr.end - rr.start > MaxUsize THEN Panic
    ELSE IF rr.start > MaxUsize THEN Bytes(Zeros(rr.end - rr.start))
    ELSE IF rr.end > MaxUsize THEN Bytes(MemoryGet(mem, rr.start, MaxUsize - rr.start))
    ELSE Bytes(MemoryGet(mem, rr.start, rr.end - rr.start))

\* Machine::return_value.  U256's `-` panics when it underflows and
\* U256::as_usize panics when the value exceeds usize::MAX.
return_value(rr, mem) ==
    IF rr.start > MaxUsize
    THEN \* lines 214-220
         IF rr.end < rr.start \/ rr.end - rr.start > MaxUsize
         THEN Panic
         ELSE Bytes(Zeros(rr.end - rr.start))
    ELSE IF rr.end > MaxUsize
    THEN \* lines 221-232
         LET ret == MemoryGet(mem, rr.start, MaxUsize - rr.start)
         IN  IF rr.end - rr.start > MaxUsize
             THEN Panic
             ELSE Bytes(PadTo(ret, rr.end - rr.start))
    ELSE \* lines 233-238
         IF rr.end < rr.start
         THEN Panic
         ELSE Bytes(MemoryGet(mem, rr.start, rr.end - rr.start))

MemBytes == {1, 2}
Memories == UNION {[1..n -> MemBytes] : n \in 0..MaxUsize}

\* A machine whose handlers have left some return range and some memory
InitRet ==
    /\ overflow_checks \in BOOLEAN
    /\ code = <<>>
    /\ program_counter = 0
    /\ \E s \in U256, e \in U256 : return_range = [start |-> s, end |-> e]
    /\ memory \in Memories
    /\ stack = <<>>
    /\ status = "Ok"
    /\ gas = GasNew(0)
    /\ GhostInit
    /\ CursorIdle

ReturnValue ==
    /\ ~panicked
    /\ retVal = NoValue
    /\ retVal' = return_value(return_range, memory)
    /\ panicked' = (retVal'.ret = "panic")
    /\ UNCHANGED <<overflow_checks, gas, machineVars, loopVars, ledgerGhosts,
                   cursorVars>>

NextRet == ReturnValue

SpecRet == InitRet /\ [][NextRet]_vars

-----------------------------------------------------------------------------
(* ExtBytecode: the execution cursor over a bytecode container.  The       *)
(* pointer is kept as its distance from the start of the buffer, which the *)
(* unchecked jumps can make negative or larger than the buffer.  A read    *)
(* outside the buffer is undefined behaviour: it yields whatever the       *)
(* memory there holds, or faults.                                          *)

JUMPDEST == 91
U8Mod == 256
U16Mod == 65536

\* the bytes a buffer holds, and the bytes the memory around it may hold
ByteVals == {JUMPDEST, 255}
OutsideBytes == {0, 255}

\* the pointer is followed while it is at most MaxJump bytes outside the
\* longest buffer
PtrMin == 0 - MaxJump
PtrMax == MaxLen + MaxJump

\* pointers are usize wide: the modulus of `as usize`, scaled to lie beyond
\* every distance the pointer is followed to
AddressSpace == 2 * (PtrMax + 1)

Buffers == UNION {[1..n -> ByteVals] : n \in 1..MaxLen}
RelOffsets == (0 - MaxJump)..MaxJump
AbsTargets == 0..MaxLen
SliceLens == 0..MaxLen
Indexes == 0..1

\* Bytecode: legacy code with its jump table, or an EOF container with one
\* code section, a data section and sub-containers
Legacy(b) == [kind |-> "Legacy", bytes |-> b, data |-> <<>>, containers |-> <<>>]
Eof(b, d, cs) == [kind |-> "Eof", bytes |-> b, data |-> d, containers |-> cs]
Bytecodes ==
    {Legacy(b) : b \in Buffers}
        \cup {Eof(b, <<255>>, << <<JUMPDEST>> >>) : b \in Buffers}

is_eof(b) == b.kind = "Eof"
\* JumpTable::is_valid: the offset is in the code and holds a JUMPDEST
is_valid(b, offset) == offset < Len(b.bytes) /\ b.bytes[offset + 1] = JUMPDEST

\* The outcome of a call: out is "value", "some", "none", "unit", "panic",
\* "ub" (a value made of bytes outside the buffer) or "fault"
Out(out, val, bytes) == [out |-> out, val |-> val, bytes |-> bytes]

InBuffer(b, i) == i >= 0 /\ i < Len(b.bytes)
AllIn(b, i, n) == \A k \in 0..(n - 1) : InBuffer(b, i + k)
MemoryAt(b, i) == IF InBuffer(b, i) THEN {b.bytes[i + 1]} ELSE OutsideBytes

\* the n bytes at distance i: the outcomes of reading them
Load(b, i, n) ==
    IF AllIn(b, i, n)
        THEN {Out("value", 0, SubSeq(b.bytes, i + 1, i + n))}
    ELSE {Out("ub", 0, x) :
            x \in {y \in [1..n -> ByteVals \cup OutsideBytes] :
                     \A k \in 1..n : y[k] \in MemoryAt(b, i + k - 1)}}
         \cup {Out("fault", 0, <<>>)}

\* the outcome o of a load, read as the value v
Value(o, v) == IF o.out = "fault" THEN o ELSE Out(o.out, v, <<>>)

\* the k-th byte loaded
Byte(o, k) == IF k <= Len(o.bytes) THEN o.bytes[k] ELSE 0
BE16(o) == Byte(o, 1) * U8Mod + Byte(o, 2)
AsI8(v) == IF v >= U8Mod \div 2 THEN v - U8Mod ELSE v
AsI16(v) == IF v >= U16Mod \div 2 THEN v - U16Mod ELSE v

\* bytecode::utils::read_u16 and read_i16: the big-endian value of the two
\* bytes at the pointer
utils_read_u16(b, p) == {Value(o, BE16(o)) : o \in Load(b, p, 2)}
utils_read_i16(b, p) == {Out(o.out, AsI16(o.val), <<>>) : o \in utils_read_u16(b, p)}

\* Jumps
relative_jump(ip, offset) == ip + offset
\* absolute_jump counting from the current pointer instead of the start
absolute_jump_from_pointer(b, ip, offset) == ip + offset

\* base.bytecode().as_ptr().add(offset): the pointer is taken anew from the
\* start of the buffer, whatever it was
absolute_jump(b, ip, offset) == offset
is_valid_legacy_jump(b, offset) ==
    IF is_eof(b) THEN {Out("panic", 0, <<>>)}
    ELSE {Out("value", IF is_valid(b, offset) THEN 1 ELSE 0, <<>>)}
opcode(b, ip) == {Value(o, Byte(o, 1)) : o \in Load(b, ip, 1)}
pc(b, ip) == IF ip >= 0 THEN ip ELSE ip + AddressSpace

\* Immediates
read_i16(b, ip) == utils_read_i16(b, ip)
read_u16(b, ip) == utils_read_u16(b, ip)
read_i8(b, ip) == {Value(o, AsI8(Byte(o, 1))) : o \in Load(b, ip, 1)}
read_u8(b, ip) == {Value(o, Byte(o, 1)) : o \in Load(b, ip, 1)}
read_slice(b, ip, n) == Load(b, ip, n)
read_offset_i16(b, ip, offset) == utils_read_i16(b, ip + offset)
read_offset_u16(b, ip, offset) == utils_read_u16(b, ip + offset)

\* EofCodeInfo, EofData, EofContainer
code_section_info(b, idx) ==
    IF is_eof(b) /\ idx < 1 THEN {Out("some", idx, <<>>)} ELSE {Out("none", 0, <<>>)}
code_section_pc(b, idx) ==
    IF is_eof(b) /\ idx < 1 THEN {Out("some", 0, <<>>)} ELSE {Out("none", 0, <<>>)}
data(b) ==
    IF is_eof(b) THEN {Out("value", 0, b.data)} ELSE {Out("panic", 0, <<>>)}
data_slice(b, offset, n) ==
    IF is_eof(b) /\ offset + n <= Len(b.data)
        THEN {Out("value", 0, SubSeq(b.data, offset + 1, offset + n))}
    ELSE {Out("panic", 0, <<>>)}
data_size(b) ==
    IF is_eof(b) THEN {Out("value", Len(b.data), <<>>)} ELSE {Out("panic", 0, <<>>)}
eof_container(b, index) ==
    IF is_eof(b) /\ index < Len(b.containers)
        THEN {Out("some", 0, b.containers[index + 1])}
    ELSE {Out("none", 0, <<>>)}

\* assume!(cond) followed by a body with outcome o: a debug build panics
\* when cond is false; any other build has told the optimizer that cond
\* holds, which is undefined behaviour when it does not
assume(cond, o) ==
    IF cond THEN {o}
    ELSE IF debug_assertions THEN {Out("panic", 0, <<>>)}
    ELSE {Out("ub", o.val, o.bytes), Out("fault", 0, <<>>)}

\* LegacyBytecode
bytecode_len(b) == assume(~is_eof(b), Out("value", Len(b.bytes), <<>>))
bytecode_slice(b) == assume(~is_eof(b), Out("value", 0, b.bytes))

\* ExtBytecode::new
InitCursor ==
    /\ debug_assertions \in BOOLEAN
    /\ overflow_checks = debug_assertions
    /\ MachineNew(<<>>, 0)
    /\ GhostInit
    /\ base \in Bytecodes
    /\ instruction_pointer = 0
    /\ jumped = [op |-> "new", target |-> 0]
    /\ strayed = FALSE
    /\ rd = NoRd

JumpTo(op, target, ip) ==
    /\ ~panicked
    /\ ip \in PtrMin..PtrMax
    /\ instruction_pointer' = ip
    /\ jumped' = [op |-> op, target |-> target]
    /\ strayed' = (strayed \/ ~InBuffer(base, ip))
    /\ rd' = NoRd
    /\ UNCHANGED <<overflow_checks, panicked, gas, machineVars, loopVars,
                   ledgerGhosts, retVal, debug_assertions, base>>

RelativeJump ==
    \E offset \in RelOffsets :
        JumpTo("relative_jump", 0, relative_jump(instruction_pointer, offset))

AbsoluteJump ==
    \E offset \in AbsTargets :
        JumpTo("absolute_jump", offset, absolute_jump(base, instruction_pointer, offset))

\* A call that leaves the pointer alone, with one of its outcomes
CursorCall(op, arg, n, outcomes) ==
    /\ ~panicked
    /\ \E o \in outcomes :
        /\ rd' = [op |-> op, arg |-> arg, len |-> n, out |-> o.out,
                  val |-> o.val, bytes |-> o.bytes]
        /\ panicked' = (o.out \in {"panic", "fault"})
    /\ UNCHANGED <<overflow_checks, gas, machineVars, loopVars, ledgerGhosts,
                   retVal, debug_assertions, base, instruction_pointer,
                   jumped, strayed>>

IsValidLegacyJump ==
    \E offset \in AbsTargets :
        CursorCall("is_valid_legacy_jump", offset, 0, is_valid_legacy_jump(base, offset))
Opcode == CursorCall("opcode", 0, 0, opcode(base, instruction_pointer))
Pc == CursorCall("pc", 0, 0, {Out("value", pc(base, instruction_pointer), <<>>)})
ReadI16 == CursorCall("read_i16", 0, 0, read_i16(base, instruction_pointer))
ReadU16 == CursorCall("read_u16", 0, 0, read_u16(base, instruction_pointer))
ReadI8 == CursorCall("read_i8", 0, 0, read_i8(base, instruction_pointer))
ReadU8 == CursorCall("read_u8", 0, 0, read_u8(base, instruction_pointer))
ReadSlice ==
    \E n \in SliceLens :
        CursorCall("read_slice", 0, n, read_slice(base, instruction_pointer, n))
ReadOffsetI16 ==
    \E offset \in RelOffsets :
        CursorCall("read_offset_i16", offset, 0,
                   read_offset_i16(base, instruction_pointer, offset))
ReadOffsetU16 ==
    \E offset \in RelOffsets :
        CursorCall("read_offset_u16", offset, 0,
                   read_offset_u16(base, instruction_pointer, offset))
CodeSectionInfo ==
    \E idx \in Indexes : CursorCall("code_section_info", idx, 0, code_section_info(base, idx))
CodeSectionPc ==
    \E idx \in Indexes : CursorCall("code_section_pc", idx, 0, code_section_pc(base, idx))
Data == CursorCall("data", 0, 0, data(base))
DataSlice ==
    \E offset \in Indexes, n \in Indexes :
        CursorCall("data_slice", offset, n, data_slice(base, offset, n))
DataSize == CursorCall("data_size", 0, 0, data_size(base))
EofContainer ==
    \E index \in Indexes : CursorCall("eof_container", index, 0, eof_container(base, index))
BytecodeLen == CursorCall("bytecode_len", 0, 0, bytecode_len(base))
BytecodeSlice == CursorCall("bytecode_slice", 0, 0, bytecode_slice(base))

NextCursor ==
    \/ RelativeJump
    \/ AbsoluteJump
    \/ IsValidLegacyJump
    \/ Opcode
    \/ Pc
    \/ ReadI16
    \/ ReadU16
    \/ ReadI8
    \/ ReadU8
    \/ ReadSlice
    \/ ReadOffsetI16
    \/ ReadOffsetU16
    \/ CodeSectionInfo
    \/ CodeSectionPc
    \/ Data
    \/ DataSlice
    \/ DataSize
    \/ EofContainer
    \/ BytecodeLen
    \/ BytecodeSlice

SpecCursor == InitCursor /\ [][NextCursor]_vars

\* the byte of the memory at offset i, zero where the memory holds nothing
MemAt(i) == IF i < Len(memory) THEN memory[i + 1] ELSE 0

\* what the three cases say of a result of the range's length
ReturnCases ==
    LET start == return_range.start
        end == return_range.end
        b == retVal.bytes
    IN  /\ retVal.ret = "bytes"
        /\ Len(b) = end - start
        /\ start > MaxUsize => \A i \in 1..Len(b) : b[i] = 0
        /\ (start <= MaxUsize /\ end > MaxUsize) =>
              \A i \in 1..Len(b) :
                  b[i] = IF start + i - 1 < MaxUsize THEN MemAt(start + i - 1) ELSE 0
        /\ end <= MaxUsize => \A i \in 1..Len(b) : b[i] = MemAt(start + i - 1)

-----------------------------------------------------------------------------
(* Properties of the step loop *)

StepTaken == steps' # steps

\* the program counter is at or past the end of the code, or the byte at it
\* is not a recognised opcode
NoOpcodeAt(c, at) == at >= Len(c) \/ c[at + 1] \notin Opcodes

\* C3: the status is sticky: once it is Err(r) no later step makes it Ok or
\* Err(r') with r' # r, so a run reports one terminal reason.
C3_StatusSticky ==
    /\ [][status # "Ok" => status' = status]_vars
    /\ [](runRet # "none" => runRet = status)

\* C3 witness: step() has been called again on a machine that ended OutOfGas
C3_Witness ==
    /\ reentered
    /\ status = "OutOfGas"
    /\ stepRet = "OutOfGas"
    /\ lastCtl = NoCtl

\* C4: a step that starts with status Err never calls eval, whatever the
\* program counter and the byte at it.
C4_NoDispatchAfterErr ==
    [][(StepTaken /\ status # "Ok") =>
          (dispatches' = dispatches /\ lastCtl' = NoCtl)]_vars

\* C4 witness: step() was called on a machine whose status is Err although an
\* opcode is at the program counter, and nothing was dispatched by it
C4_Witness ==
    /\ reentered
    /\ status # "Ok"
    /\ ~NoOpcodeAt(code, program_counter)
    /\ dispatches = 1
    /\ steps = 3

\* C5: step() applies eval's control outcome exactly: Continue sets the
\* program counter to pc + 1, ContinueN(n) to pc + n, Jump(t) to t, each
\* leaving status Ok and returning Ok; Exit(r) sets status to Err(r), returns
\* Err(r) and leaves the program counter unchanged.
C5_ControlApplied ==
    [][StepTaken =>
        /\ lastCtl'.kind = "Continue" =>
              /\ program_counter' = program_counter + 1
              /\ status' = "Ok" /\ stepRet' = "Ok"
        /\ lastCtl'.kind = "ContinueN" =>
              /\ program_counter' = program_counter + lastCtl'.n
              /\ status' = "Ok" /\ stepRet' = "Ok"
        /\ lastCtl'.kind = "Jump" =>
              /\ program_counter' = lastCtl'.n
              /\ status' = "Ok" /\ stepRet' = "Ok"
        /\ lastCtl'.kind = "Exit" =>
              /\ program_counter' = program_counter
              /\ status' = lastCtl'.reason /\ stepRet' = lastCtl'.reason]_vars

\* C5 witness: a ContinueN(2) has been applied at a program counter above 0
C5_Witness ==
    /\ lastCtl = ContinueN(2)
    /\ program_counter = 3
    /\ stepRet = "Ok"

C7_OutOfGasIsFinal ==
    /\ [][(StepTaken /\ api' = "run" /\ lastCtl' = Exit("OutOfGas")) =>
            /\ runRet' = "OutOfGas"
            /\ caller' = "idle"
            /\ dispatches' = dispatches + 1]_vars
    /\ [][(StepTaken /\ status = "OutOfGas") =>
            /\ stepRet' = "OutOfGas"
            /\ dispatches' = dispatches
            /\ UNCHANGED <<program_counter, status, gas, stack, memory,
                           return_range>>]_vars

\* C7 witness: run() returned OutOfGas at its second dispatch, after the first
\* had charged gas and stored to memory, and step() was called once more
C7_Witness ==
    /\ runRet = "OutOfGas"
    /\ status = "OutOfGas"
    /\ dispatches = 2
    /\ steps = 3
    /\ reentered
    /\ api = "step"
    /\ stepRet = "OutOfGas"
    /\ memory # <<>>

-----------------------------------------------------------------------------
(* Properties of the ledger *)

LedgerCall(op) == ops' # ops /\ last'.op = op

\* C1: for every limit L and every sequence of record_cost calls on a fresh
\* ledger, interleaved with gas_memory calls, a call returns true iff
\* used + memory + cost <= L at the moment of the call, and after every
\* prefix `used` is exactly the sum of the costs whose call returned true.
C1_ChargeIffWithinLimit ==
    /\ [][LedgerCall("record_cost") =>
            ((last'.ret = "true") <=> (gas.used + gas.memory + last'.arg <= gas.limit))]_vars
    /\ [](gas.used = charged)

\* C1 in a build with overflow checks: the addition panics instead of wrapping
C1_HoldsWithOverflowChecks ==
    /\ [][(overflow_checks /\ LedgerCall("record_cost")) =>
            ((last'.ret = "true") <=> (gas.used + gas.memory + last'.arg <= gas.limit))]_vars
    /\ [](overflow_checks => gas.used = charged)

\* C2: a record_cost call that returns false changes no field of the ledger,
\* and record_cost_control(cost) returns Exit(OutOfGas) exactly when
\* record_cost(cost) returns false, Continue exactly when it returns true,
\* with the same effect on the ledger.
C2_FailedChargeMutatesNothing ==
    [][/\ (LedgerCall("record_cost") /\ last'.ret = "false") => gas' = gas
       /\ LedgerCall("record_cost_control") =>
            /\ (last'.ret = "Exit(OutOfGas)") <=> (record_cost(gas, last'.arg).ret = "false")
            /\ (last'.ret = "Continue") <=> (record_cost(gas, last'.arg).ret = "true")
            /\ (last'.ret = "Exit(OutOfGas)") => gas' = gas
            /\ gas' = record_cost(gas, last'.arg).gas]_vars

\* C2 witness: a charge has failed on a ledger that holds used and memory gas
C2_Witness ==
    /\ last.op = "record_cost"
    /\ last.ret = "false"
    /\ gas.used > 0
    /\ gas.memory > 0

\* C9: gas_memory(v) sets memory to max(memory, v): the memory counter never
\* decreases, it equals the largest value ever passed, and a call with
\* v <= memory leaves the whole ledger unchanged.
C9_MemoryIsHighWaterMark ==
    /\ [](gas.memory = maxPassed)
    /\ [][gas'.memory >= gas.memory]_vars
    /\ [][LedgerCall("gas_memory") =>
            /\ gas'.memory = Max(gas.memory, last'.arg)
            /\ (last'.arg <= gas.memory => gas' = gas)]_vars

\* C9 witness: a smaller value has been replayed after a larger one
C9_Witness ==
    /\ last.op = "gas_memory"
    /\ last.arg < gas.memory
    /\ last.arg > 0

\* C10: whenever record_cost returns true, used + memory <= limit holds
\* immediately afterwards; a charge that would break the bound does not
\* return true and leaves the ledger unchanged.
C10_ChargeKeepsBound ==
    [][LedgerCall("record_cost") =>
        /\ (last'.ret = "true") => gas'.used + gas'.memory <= gas'.limit
        /\ (gas.used + gas.memory + last'.arg > gas.limit) =>
               (last'.ret # "true" /\ gas' = gas)]_vars

\* C10 in a build with overflow checks
C10_HoldsWithOverflowChecks ==
    [][(overflow_checks /\ LedgerCall("record_cost")) =>
        /\ (last'.ret = "true") => gas'.used + gas'.memory <= gas'.limit
        /\ (gas.used + gas.memory + last'.arg > gas.limit) =>
               (last'.ret # "true" /\ gas' = gas)]_vars

\* C13: erase_cost(returned) with returned <= used decrements used by exactly
\* returned and leaves limit, memory and refunded unchanged; with
\* returned > used it leaves no wrapped-around value in used but ends in an
\* unrecoverable internal error (a panic), not an ExitReason.
C13_EraseCostChecked ==
    [][LedgerCall("erase_cost") =>
        IF last'.arg <= gas.used
        THEN /\ last'.ret = "unit"
             /\ gas' = [gas EXCEPT !.used = gas.used - last'.arg]
        ELSE /\ last'.ret = "panic"
             /\ gas' = gas]_vars

\* C13 in a build with overflow checks: the subtraction panics
C13_HoldsWithOverflowChecks ==
    [][(overflow_checks /\ LedgerCall("erase_cost")) =>
        IF last'.arg <= gas.used
        THEN /\ last'.ret = "unit"
             /\ gas' = [gas EXCEPT !.used = gas.used - last'.arg]
        ELSE /\ last'.ret = "panic"
             /\ gas' = gas]_vars

OnlyField(f) ==
    /\ f # "limit" => gas'.limit = gas.limit
    /\ f # "used" => gas'.used = gas.used
    /\ f # "memory" => gas'.memory = gas.memory
    /\ f # "refunded" => gas'.refunded = gas.refunded

C20_NoWrappedCharge ==
    [][(LedgerCall("record_cost") /\ gas.used + gas.memory + last'.arg > gas.limit) =>
          (last'.ret = "false" /\ gas' = gas)]_vars

\* C14: trace_opcode is called once per step, before the status check and
\* before the dispatch of that step, and changes no part of the execution
\* state nor the step's control outcome.
C14_TracedOncePerStep ==
    [][StepTaken => traces' = traces + 1]_vars

\* C14 amended: trace_opcode is called once in every step that decodes an
\* opcode and not at all in a step that finds none; it is called before the
\* status check, so also in a step that starts with status Err, which then
\* dispatches nothing and changes nothing.
C14_TracedOncePerDecodedStep ==
    [][StepTaken =>
        /\ NoOpcodeAt(code, program_counter) => traces' = traces
        /\ ~NoOpcodeAt(code, program_counter) => traces' = traces + 1
        /\ (~NoOpcodeAt(code, program_counter) /\ status # "Ok") =>
              /\ dispatches' = dispatches
              /\ stepRet' = status
              /\ UNCHANGED <<gas, machineVars>>
        /\ dispatches' # dispatches => traces' = traces + 1]_vars

\* C14 witness: the hook has been called in a step that started with status
\* Err and dispatched nothing
C14_Witness ==
    /\ reentered
    /\ status = "Revert"
    /\ traces = dispatches + 1
    /\ stepRet = "Revert"

\* C17: the value step() returns agrees with the status it leaves: Err(r)
\* iff status is Err(r), Ok iff status is Ok; so the reason run() returns is
\* the one held in status.
C17_ReturnAgreesWithStatus ==
    /\ [][(StepTaken /\ ~panicked') => stepRet' = status']_vars
    /\ [](runRet # "none" => (runRet = status /\ runRet = stepRet))

\* C17 witness: run() has returned the reason of an Exit after a step that returned Ok
C17_Witness ==
    /\ runRet = "Revert"
    /\ status = "Revert"
    /\ dispatches = 2
    /\ ~reentered

\* C19: when every handler outcome is Continue or ContinueN(n) with n >= 1,
\* run() on a code buffer of length N returns, returns Stopped, and dispatches
\* at most N handlers, the program counter growing in every step that
\* returns Ok.
C19_RunStopsWithinN ==
    /\ <>(runRet = "Stopped")
    /\ [](dispatches <= Len(code))
    /\ [](runRet \in {"none", "Stopped"})
    /\ [][(StepTaken /\ stepRet' = "Ok") => program_counter' > program_counter]_vars

\* C19 witness: run() has stopped past the end of the longest code after one
\* dispatch per byte
C19_Witness ==
    /\ runRet = "Stopped"
    /\ Len(code) = MaxCodeLen
    /\ dispatches = Len(code)
    /\ program_counter = Len(code)

\* C11: after absolute_jump(t) with t < len(B), whatever jumps came before:
\* pc() = t, opcode() and read_u8() return B[t], read_slice(n) returns
\* B[t..t+n], read_u16() and read_i16() return the big-endian 16-bit value of
\* B[t..t+2]; a freshly constructed cursor has pc() = 0.
C11_ReadsAtTarget ==
    /\ (jumped.op = "absolute_jump" /\ jumped.target < Len(base.bytes)) =>
          /\ rd.op = "pc" => rd.val = jumped.target
          /\ rd.op \in {"opcode", "read_u8"} =>
                (rd.out = "value" /\ rd.val = base.bytes[jumped.target + 1])
          /\ rd.op = "read_slice" =>
                /\ rd.out = "value"
                /\ rd.bytes = SubSeq(base.bytes, jumped.target + 1, jumped.target + rd.len)
          /\ rd.op = "read_u16" =>
                /\ rd.out = "value"
                /\ rd.val = base.bytes[jumped.target + 1] * 256 + base.bytes[jumped.target + 2]
          /\ rd.op = "read_i16" =>
                /\ rd.out = "value"
                /\ (rd.val - (base.bytes[jumped.target + 1] * 256
                                + base.bytes[jumped.target + 2])) \in {0, 0 - 65536}
                /\ rd.val \in (0 - 32768)..32767
    /\ (jumped.op = "new" /\ rd.op = "pc") => rd.val = 0

\* C11 amended: as C11, for read_slice(n) when t + n <= len(B) and for
\* read_u16() and read_i16() when t + 2 <= len(B).
C11_ReadsAtTargetWithinBuffer ==
    /\ (jumped.op = "absolute_jump" /\ jumped.target < Len(base.bytes)) =>
          /\ rd.op = "pc" => rd.val = jumped.target
          /\ rd.op \in {"opcode", "read_u8"} =>
                (rd.out = "value" /\ rd.val = base.bytes[jumped.target + 1])
          /\ (rd.op = "read_slice" /\ jumped.target + rd.len <= Len(base.bytes)) =>
                /\ rd.out = "value"
                /\ rd.bytes = SubSeq(base.bytes, jumped.target + 1, jumped.target + rd.len)
          /\ (rd.op = "read_u16" /\ jumped.target + 2 <= Len(base.bytes)) =>
                /\ rd.out = "value"
                /\ rd.val = base.bytes[jumped.target + 1] * 256 + base.bytes[jumped.target + 2]
          /\ (rd.op = "read_i16" /\ jumped.target + 2 <= Len(base.bytes)) =>
                /\ rd.out = "value"
                /\ (rd.val - (base.bytes[jumped.target + 1] * 256
                                + base.bytes[jumped.target + 2])) \in {0, 0 - 65536}
                /\ rd.val \in (0 - 32768)..32767
    /\ (jumped.op = "new" /\ rd.op = "pc") => rd.val = 0

\* C11 witness: read_u16() after an absolute jump that followed a jump out of
\* the buffer has returned two different bytes, high byte first
C11_Witness ==
    /\ jumped.op = "absolute_jump"
    /\ strayed
    /\ jumped.target + 2 <= Len(base.bytes)
    /\ rd.op = "read_u16"
    /\ rd.val = 255 * 256 + JUMPDEST

\* C12: the cursor always addresses a byte of the bytecode: 0 <= pc() <
\* len(bytecode) after construction and after any relative and absolute
\* jumps, so opcode() never reads outside the buffer.
C12_CursorWithinBytecode ==
    base # NoBase =>
        /\ pc(base, instruction_pointer) >= 0
        /\ pc(base, instruction_pointer) < Len(base.bytes)
        /\ rd.op = "opcode" => rd.out = "value"

\* C16: accessors fail explicitly on the wrong variant: on a legacy
\* container type_section, code_section_start and sub_container return None
\* and data, data_slice and data_size fail; on a structured container
\* is_valid_legacy_jump fails and bytecode_len and bytecode_slice are stopped
\* by a check.
C16_WrongVariantFails ==
    /\ base.kind = "Legacy" =>
          /\ rd.op \in {"code_section_info", "code_section_pc", "eof_container"} =>
                rd.out = "none"
          /\ rd.op \in {"data", "data_slice", "data_size"} => rd.out = "panic"
    /\ base.kind = "Eof" =>
          /\ rd.op = "is_valid_legacy_jump" => rd.out = "panic"
          /\ rd.op \in {"bytecode_len", "bytecode_slice"} => rd.out = "panic"

====
